---------------------------- MODULE Spec2Model ----------------------------
(***************************************************************************)
(* Model of datamodels/processing/datascaler.py: the DataScaler family     *)
(* (IdentityScaler, Normalizer, Standardizer, RobustStandardizer).         *)
(*                                                                         *)
(* Numbers.  An array element is a pair <<n, d>>: the rational n/d in      *)
(* lowest terms with d > 0, or one of the three IEEE specials with d = 0:  *)
(* <<0,0>> is NaN, <<1,0>> is +inf and <<-1,0>> is -inf.  Arithmetic is    *)
(* exact on rationals and follows IEEE-754 on the specials (x/0 is +-inf,  *)
(* 0/0 is NaN, NaN propagates), which is what numpy does elementwise: a    *)
(* division by zero yields inf or NaN and a warning, never an exception.   *)
(* A row is a sequence of NCols numbers, a 2-D array a sequence of rows.   *)
(* None is the empty tuple; a fitted field is a vector of NCols >= 1       *)
(* numbers, so the two never coincide.                                     *)
(***************************************************************************)
EXTENDS Integers, Sequences, FiniteSets, TLC

VARIABLES cls, self, lastFit, last, fitpc, fitD, rd

vars == <<cls, self, lastFit, last, fitpc, fitD, rd>>

-----------------------------------------------------------------------------
(* Bounds of the model *)

\* largest number of rows of a distribution passed to fit
MaxRows == 3
\* largest number of rows of a distribution in the interleaved specification
MaxRowsConc == 2
\* the square root is rounded to a multiple of 1/SqrtPrec
SqrtPrec == 100

-----------------------------------------------------------------------------
(* Elementwise arithmetic *)

NaN == <<0, 0>>
None == <<>>

Abs(n) == IF n < 0 THEN -n ELSE n
Sign(n) == IF n < 0 THEN -1 ELSE IF n > 0 THEN 1 ELSE 0

RECURSIVE GCD(_, _)
GCD(a, b) == IF b = 0 THEN a ELSE GCD(b, a % b)

\* the number n/d, in lowest terms; d = 0 gives a special
Rat(n, d) ==
    IF d = 0 THEN <<Sign(n), 0>>
    ELSE LET g == GCD(Abs(n), Abs(d))
         IN  <<(Sign(d) * n) \div g, Abs(d) \div g>>

R(n) == <<n, 1>>

IsNaN(x) == x = NaN
IsFinite(x) == x[2] # 0
IsZero(x) == x[2] # 0 /\ x[1] = 0

FNeg(x) == <<-x[1], x[2]>>

FAdd(a, b) ==
    IF IsNaN(a) \/ IsNaN(b) THEN NaN
    ELSE IF ~IsFinite(a) /\ ~IsFinite(b) THEN (IF a = b THEN a ELSE NaN)
    ELSE IF ~IsFinite(a) THEN a
    ELSE IF ~IsFinite(b) THEN b
    ELSE Rat(a[1] * b[2] + b[1] * a[2], a[2] * b[2])

FSub(a, b) == FAdd(a, FNeg(b))

\* with d = 0 encoding the specials, the product of the pairs is the IEEE
\* product: inf * 0 = <<0,0>> = NaN, inf * x = +-inf, NaN * x = NaN
FMul(a, b) == Rat(a[1] * b[1], a[2] * b[2])

\* x / 0 = +-inf, 0 / 0 = NaN, x / inf = 0, inf / inf = NaN
FDiv(a, b) ==
    IF IsNaN(a) \/ IsNaN(b) THEN NaN
    ELSE Rat(a[1] * b[2] * (IF b[1] < 0 THEN -1 ELSE 1), a[2] * Abs(b[1]))

\* a < b, on numbers that are not NaN
FLess(a, b) ==
    IF ~IsFinite(a) \/ ~IsFinite(b)
    THEN (IF IsFinite(a) THEN b[1] > 0 ELSE IF IsFinite(b) THEN a[1] < 0 ELSE a[1] < b[1])
    ELSE a[1] * b[2] < b[1] * a[2]

FLeq(a, b) == a = b \/ FLess(a, b)

\* largest r with r * r <= n, by bisection on lo..hi
RECURSIVE ISqrtIn(_, _, _)
ISqrtIn(n, lo, hi) ==
    IF lo >= hi THEN lo
    ELSE LET mid == (lo + hi + 1) \div 2
         IN  IF mid * mid <= n THEN ISqrtIn(n, mid, hi) ELSE ISqrtIn(n, lo, mid - 1)

\* np.sqrt on a non-negative number, rounded down to a multiple of 1/SqrtPrec
\* (and never to zero for a positive argument, as in floating point)
FSqrt(x) ==
    IF ~IsFinite(x) THEN x
    ELSE IF x[1] = 0 THEN R(0)
    ELSE LET n == (x[1] * SqrtPrec * SqrtPrec) \div x[2]
             r == ISqrtIn(n, 0, 46340)
         IN  IF r = 0 THEN Rat(1, SqrtPrec) ELSE Rat(r, SqrtPrec)

-----------------------------------------------------------------------------
(* Arrays *)

RowA == <<R(0), R(10)>>
RowB == <<R(1), R(20)>>
RowC == <<R(2), R(30)>>
\* a row whose entries are all missing
RowNaN == <<NaN, NaN>>

NCols == Len(RowA)
Cols == 1..NCols

\* the rows a distribution is built from
DistRows == {RowA, RowB, RowC, RowNaN}

SeqsUpTo(S, n) == UNION {[1..k -> S] : k \in 0..n}

\* the distributions passed to fit: 0..MaxRows rows
Distributions == SeqsUpTo(DistRows, MaxRows)
DistributionsConc == SeqsUpTo(DistRows, MaxRowsConc)

\* the one-row arrays passed to transform / inverse_transform: inside the
\* fitted range, scaled values, outside the range and with a missing entry
DataRows == {RowB, <<Rat(1, 2), Rat(1, 2)>>, <<R(3), NaN>>}
Data == {<<r>> : r \in DataRows}
DataConc == {<<RowB>>, <<<<Rat(1, 2), Rat(1, 2)>>>>}

Col(a, j) == [i \in 1..Len(a) |-> a[i][j]]

\* the entries of column c that are not NaN, in order
RECURSIVE DropNaN(_)
DropNaN(c) ==
    IF Len(c) = 0 THEN <<>>
    ELSE IF IsNaN(c[1]) THEN DropNaN(Tail(c))
    ELSE <<c[1]>> \o DropNaN(Tail(c))

RECURSIVE Insert(_, _)
Insert(x, s) ==
    IF Len(s) = 0 THEN <<x>>
    ELSE IF FLeq(x, s[1]) THEN <<x>> \o s
    ELSE <<s[1]>> \o Insert(x, Tail(s))

RECURSIVE Sort(_)
Sort(c) == IF Len(c) = 0 THEN <<>> ELSE Insert(c[1], Sort(Tail(c)))

RECURSIVE Sum(_)
Sum(c) == IF Len(c) = 0 THEN R(0) ELSE FAdd(c[1], Sum(Tail(c)))

-----------------------------------------------------------------------------
(* The numpy reductions fit calls, on one column (axis=0 applies them to    *)
(* every column)                                                           *)

fmin(a, b) == IF IsNaN(a) THEN b ELSE IF IsNaN(b) THEN a ELSE IF FLess(b, a) THEN b ELSE a
fmax(a, b) == IF IsNaN(a) THEN b ELSE IF IsNaN(b) THEN a ELSE IF FLess(a, b) THEN b ELSE a

\* variant: np.min, which propagates NaN
amin(c) ==
    IF \E i \in 1..Len(c) : IsNaN(c[i]) THEN NaN
    ELSE CHOOSE x \in {c[i] : i \in 1..Len(c)} : \A i \in 1..Len(c) : FLeq(x, c[i])

\* np.nanmin of a non-empty column: fmin.reduce; NaN when every entry is NaN
RECURSIVE nanmin(_)
nanmin(c) ==
    IF Len(c) = 1 THEN c[1] ELSE fmin(nanmin(SubSeq(c, 1, Len(c) - 1)), c[Len(c)])

RECURSIVE nanmax(_)
nanmax(c) ==
    IF Len(c) = 1 THEN c[1] ELSE fmax(nanmax(SubSeq(c, 1, Len(c) - 1)), c[Len(c)])

\* _replace_nan(a, 0)
ReplaceNaN(c) == [i \in 1..Len(c) |-> IF IsNaN(c[i]) THEN R(0) ELSE c[i]]
\* the number of entries that are not NaN
Count(c) == Len(DropNaN(c))

\* np.nanmean: sum with NaN replaced by 0, over the count of non-NaN entries
nanmean(c) == FDiv(Sum(ReplaceNaN(c)), R(Count(c)))

\* np.nanvar (ddof = 0): squared deviations of the non-NaN entries over their count
nanvar(c) ==
    LET avg == nanmean(c)
        dev == [i \in 1..Len(c) |-> IF IsNaN(c[i]) THEN R(0) ELSE FSub(c[i], avg)]
        sqr == [i \in 1..Len(c) |-> FMul(dev[i], dev[i])]
    IN  FDiv(Sum(sqr), R(Count(c)))

nanstd(c) == FSqrt(nanvar(c))

\* np.quantile of a sorted non-empty column, linear interpolation:
\* virtual index q * (n - 1), q = qn / qd
Quantile(s, qn, qd) ==
    LET n == Len(s)
        lo == ((n - 1) * qn) \div qd
        g == Rat((n - 1) * qn - lo * qd, qd)
        a == s[lo + 1]
        b == s[IF lo + 2 <= n THEN lo + 2 ELSE n]
    IN  FAdd(a, FMul(FSub(b, a), g))

\* np.nanquantile: the quantile of the non-NaN entries, NaN when there is none
nanquantile(c, qn, qd) ==
    LET s == Sort(DropNaN(c))
    IN  IF Len(s) = 0 THEN NaN ELSE Quantile(s, qn, qd)

\* np.nanmedian: the median of the non-NaN entries, NaN when there is none
nanmedian(c) ==
    LET s == Sort(DropNaN(c))
        n == Len(s)
    IN  IF n = 0 THEN NaN
        ELSE IF n % 2 = 1 THEN s[(n + 1) \div 2]
        ELSE FDiv(FAdd(s[n \div 2], s[n \div 2 + 1]), R(2))

\* the small positive constant prevent_zeros substitutes
EPSILON == Rat(1, 1000000)

\* datamodels.processing.shape.prevent_zeros: zero entries replaced by EPSILON
prevent_zeros(v) == [j \in DOMAIN v |-> IF IsZero(v[j]) THEN EPSILON ELSE v[j]]

VSub(u, v) == [j \in Cols |-> FSub(u[j], v[j])]

\* The reductions along axis 0, tabulated over the distributions (f @@ <<>>
\* is f as an explicit table, computed once).  np.nanmin and np.nanmax raise
\* on an array without rows: fit_raises covers that case, the entry is unused.
nanmin0 == [D \in Distributions |->
              [j \in Cols |-> IF Len(D) = 0 THEN NaN ELSE nanmin(Col(D, j))]] @@ <<>>
nanmax0 == [D \in Distributions |->
              [j \in Cols |-> IF Len(D) = 0 THEN NaN ELSE nanmax(Col(D, j))]] @@ <<>>
nanmean0 == [D \in Distributions |-> [j \in Cols |-> nanmean(Col(D, j))]] @@ <<>>
nanstd0 == [D \in Distributions |-> [j \in Cols |-> nanstd(Col(D, j))]] @@ <<>>
nanmedian0 == [D \in Distributions |-> [j \in Cols |-> nanmedian(Col(D, j))]] @@ <<>>
nanquantile25 == [D \in Distributions |->
                    [j \in Cols |-> nanquantile(Col(D, j), 1, 4)]] @@ <<>>
nanquantile75 == [D \in Distributions |->
                    [j \in Cols |-> nanquantile(Col(D, j), 3, 4)]] @@ <<>>

-----------------------------------------------------------------------------
(* The scaler classes *)

Classes == {"IdentityScaler", "Normalizer", "Standardizer", "RobustStandardizer"}
Stateful == Classes \ {"IdentityScaler"}

\* __init__: every field None (IdentityScaler has no field)
New(c) ==
    CASE c = "Normalizer" -> [min |-> None, max |-> None, scale |-> None]
      [] c = "Standardizer" -> [mean |-> None, std |-> None]
      [] c = "RobustStandardizer" -> [median |-> None, scale |-> None]
      [] OTHER -> <<>>

\* variant: the assert removed
AssertFields_none(c) == <<>>

\* variant: the assert tests the first field only
AssertFields_first(c) ==
    CASE c = "Normalizer" -> <<"min">>
      [] c = "Standardizer" -> <<"mean">>
      [] c = "RobustStandardizer" -> <<"median">>
      [] OTHER -> <<>>

\* the fields the assert of transform / inverse_transform tests, in order
AssertFields(c) ==
    CASE c = "Normalizer" -> <<"min", "max", "scale">>
      [] c = "Standardizer" -> <<"mean", "std">>
      [] c = "RobustStandardizer" -> <<"median", "scale">>
      [] OTHER -> <<>>

\* the field subtracted by transform and added by inverse_transform
Center(c) ==
    CASE c = "Normalizer" -> "min"
      [] c = "Standardizer" -> "mean"
      [] OTHER -> "median"

\* the field transform divides by and inverse_transform multiplies by
Divisor(c) == IF c = "Standardizer" THEN "std" ELSE "scale"

\* the number of assignments to self in fit
NStmts(c) ==
    CASE c = "Normalizer" -> 3
      [] c = "Standardizer" -> 2
      [] c = "RobustStandardizer" -> 2
      [] OTHER -> 0

\* variant: scale is the maximum, not the range
Normalizer_fit_stmt_max(s, distribution, k) ==
    CASE k = 1 -> [s EXCEPT !.min = nanmin0[distribution]]
      [] k = 2 -> [s EXCEPT !.max = nanmax0[distribution]]
      [] OTHER -> [s EXCEPT !.scale = prevent_zeros(s.max)]

\* variant: std stored without the zero guard
Standardizer_fit_stmt_unguarded(s, distribution, k) ==
    CASE k = 1 -> [s EXCEPT !.mean = nanmean0[distribution]]
      [] OTHER -> [s EXCEPT !.std = nanstd0[distribution]]

\* self after the k-th assignment of fit(distribution), executed on s
Normalizer_fit_stmt(s, distribution, k) ==
    CASE k = 1 -> [s EXCEPT !.min = nanmin0[distribution]]
      [] k = 2 -> [s EXCEPT !.max = nanmax0[distribution]]
      [] OTHER -> [s EXCEPT !.scale = prevent_zeros(VSub(s.max, s.min))]

Standardizer_fit_stmt(s, distribution, k) ==
    CASE k = 1 -> [s EXCEPT !.mean = nanmean0[distribution]]
      [] OTHER -> [s EXCEPT !.std = prevent_zeros(nanstd0[distribution])]

RobustStandardizer_fit_stmt(s, distribution, k) ==
    CASE k = 1 -> [s EXCEPT !.median = nanmedian0[distribution]]
      [] OTHER ->
           LET q25 == nanquantile25[distribution]
               q75 == nanquantile75[distribution]
           IN  [s EXCEPT !.scale = prevent_zeros(VSub(q75, q25))]

fit_stmt(c, s, distribution, k) ==
    CASE c = "Normalizer" -> Normalizer_fit_stmt(s, distribution, k)
      [] c = "Standardizer" -> Standardizer_fit_stmt(s, distribution, k)
      [] c = "RobustStandardizer" -> RobustStandardizer_fit_stmt(s, distribution, k)
      [] OTHER -> s

\* the exception fit raises before its first assignment: np.nanmin raises
\* ValueError on an array without rows (nanmean, nanmedian and nanquantile
\* return NaN for it)
fit_raises(c, distribution) ==
    IF c = "Normalizer" /\ Len(distribution) = 0 THEN "ValueError" ELSE "none"

\* the assignments k..NStmts(c) of fit, in order
RECURSIVE fit_from(_, _, _, _)
fit_from(c, s, distribution, k) ==
    IF k > NStmts(c) THEN s
    ELSE fit_from(c, fit_stmt(c, s, distribution, k), distribution, k + 1)

\* variant: fit clears the fields before it computes the statistics
fit_clearing(c, s, distribution) ==
    IF fit_raises(c, distribution) # "none"
    THEN [exc |-> fit_raises(c, distribution), self |-> New(c)]
    ELSE [exc |-> "none", self |-> fit_from(c, New(c), distribution, 1)]

\* fit(distribution) on an instance with fields s: the exception and the fields after
fit(c, s, distribution) ==
    IF fit_raises(c, distribution) # "none"
    THEN [exc |-> fit_raises(c, distribution), self |-> s]
    ELSE [exc |-> "none", self |-> fit_from(c, s, distribution, 1)]

FitFirstMsg == "cannot transform data, you must call .fit(distribution) first."

\* A call of transform / inverse_transform in progress: its position (pc and
\* k), its data argument, the operand it has read (tmp), and, once pc = "done",
\* the exception raised ("none": returned) and the value returned.
\* pre records whether every field was assigned when the call began.
NoCall ==
    [pc |-> "idle", op |-> "", arg |-> <<>>, k |-> 0, tmp |-> None,
     exc |-> "none", msg |-> "", ret |-> <<>>, pre |-> FALSE]

AllSet(s) == \A f \in DOMAIN s : s[f] # None

\* the call enters the method body
enter(c, s, op, data) ==
    [NoCall EXCEPT !.pc = IF c = "IdentityScaler" THEN "return"
                          ELSE IF Len(AssertFields(c)) = 0 THEN "read"
                          ELSE "assert",
                   !.op = op, !.arg = data, !.k = 1, !.pre = AllSet(s)]

Raise(r, e, m) == [r EXCEPT !.pc = "done", !.exc = e, !.msg = m, !.tmp = None]
Return(r, v) == [r EXCEPT !.pc = "done", !.ret = v, !.k = 0, !.tmp = None]

\* variant: data / divisor
scale_down_uncentered(data, center, divisor) ==
    [i \in 1..Len(data) |-> [j \in Cols |-> FDiv(data[i][j], divisor[j])]]

\* variant: data * divisor - center
scale_up_minus(data, center, divisor) ==
    [i \in 1..Len(data) |->
        [j \in Cols |-> FSub(FMul(data[i][j], divisor[j]), center[j])]]

\* (data - center) / divisor, elementwise, the fields broadcast over the rows
scale_down(data, center, divisor) ==
    [i \in 1..Len(data) |->
        [j \in Cols |-> FDiv(FSub(data[i][j], center[j]), divisor[j])]]

\* data * divisor + center
scale_up(data, center, divisor) ==
    [i \in 1..Len(data) |->
        [j \in Cols |-> FAdd(FMul(data[i][j], divisor[j]), center[j])]]

\* the field read first and the field read second by the return expression
Operand(c, op, k) ==
    IF (op = "transform") = (k = 1) THEN Center(c) ELSE Divisor(c)

\* variant: the return expression subtracts from the stored center in place
method_writes_inplace(c, s, r) ==
    IF r.pc = "read" /\ r.k = 2 /\ Len(r.arg) > 0 /\ s[Center(c)] # None
    THEN [s EXCEPT ![Center(c)] = [j \in Cols |-> FSub(s[Center(c)][j], r.arg[1][j])]]
    ELSE s

\* the fields of self after one step of transform / inverse_transform:
\* neither method assigns to self
method_writes(c, s, r) == s

\* one step of the call r on an instance with fields s: one conjunct of the
\* assert (short-circuit: the first None field raises AssertionError), or
\* one read of a field by the return expression; arithmetic on None raises
\* TypeError
method_step(c, s, r) ==
    CASE r.pc = "return" -> Return(r, r.arg)
      [] r.pc = "assert" ->
           IF s[AssertFields(c)[r.k]] = None THEN Raise(r, "AssertionError", FitFirstMsg)
           ELSE IF r.k < Len(AssertFields(c)) THEN [r EXCEPT !.k = r.k + 1]
           ELSE [r EXCEPT !.pc = "read", !.k = 1]
      [] r.pc = "read" /\ r.k = 1 ->
           [r EXCEPT !.k = 2, !.tmp = s[Operand(c, r.op, 1)]]
      [] OTHER ->
           LET snd == s[Operand(c, r.op, 2)]
           IN  IF r.tmp = None \/ snd = None THEN Raise(r, "TypeError", "")
               ELSE IF r.op = "transform" THEN Return(r, scale_down(r.arg, r.tmp, snd))
               ELSE Return(r, scale_up(r.arg, snd, r.tmp))

\* the call r run to completion with no other thread acting
RECURSIVE run(_, _, _)
run(c, s, r) ==
    IF r.pc = "done" THEN [call |-> r, self |-> s]
    ELSE run(c, method_writes(c, s, r), method_step(c, s, r))

transform(c, s, data) == run(c, s, enter(c, s, "transform", data))

inverse_transform(c, s, data) == run(c, s, enter(c, s, "inverse_transform", data))

-----------------------------------------------------------------------------
(* State                                                                   *)
(*   cls      the class of the one scaler instance                         *)
(*   self     its fields                                                   *)
(*   lastFit  <<D>> once a call fit(D) has completed (D of the latest      *)
(*            one), <<>> before                                            *)
(*   last     the latest completed call of the sequential caller (of a     *)
(*            fit its argument is kept in lastFit when it returned and in  *)
(*            last.arg when it raised)                                     *)
(*   fitpc    interleaved fit: 0 not called, k the next assignment,        *)
(*            NStmts + 1 returned                                          *)
(*   fitD     <<D>> for the argument D of the interleaved fit              *)
(*   rd       the call in progress of each reader thread                   *)
(***************************************************************************)

Readers == {"t1", "t2"}
Ops == {"transform", "inverse_transform"}

Fitted == AllSet(self)

Init ==
    /\ cls \in Classes
    /\ self = New(cls)
    /\ lastFit = <<>>
    /\ last = NoCall
    /\ fitpc = 0
    /\ fitD = <<>>
    /\ rd = [r \in Readers |-> NoCall]

(* The sequential caller: every call runs to completion *)

Fit(D) ==
    \E f \in {fit(cls, self, D)} :
        /\ self' = f.self
        /\ lastFit' = IF f.exc = "none" THEN <<D>> ELSE lastFit
        /\ last' = [NoCall EXCEPT !.pc = "done", !.op = "fit",
                                  !.arg = IF f.exc = "none" THEN <<>> ELSE D,
                                  !.exc = f.exc, !.pre = AllSet(self)]
        /\ UNCHANGED <<cls, fitpc, fitD, rd>>

Transform(X) ==
    \E t \in {transform(cls, self, X)} :
        /\ self' = t.self
        /\ last' = t.call
        /\ UNCHANGED <<cls, lastFit, fitpc, fitD, rd>>

InverseTransform(X) ==
    \E t \in {inverse_transform(cls, self, X)} :
        /\ self' = t.self
        /\ last' = t.call
        /\ UNCHANGED <<cls, lastFit, fitpc, fitD, rd>>

\* the caller's expression S.inverse_transform(S.transform(X))
RoundTrip(X) ==
    \E t \in {transform(cls, self, X)} :
        IF t.call.exc # "none"
        THEN /\ self' = t.self
             /\ last' = [t.call EXCEPT !.op = "roundtrip"]
             /\ UNCHANGED <<cls, lastFit, fitpc, fitD, rd>>
        ELSE \E u \in {inverse_transform(cls, t.self, t.call.ret)} :
                /\ self' = u.self
                /\ last' = [u.call EXCEPT !.op = "roundtrip", !.arg = X]
                /\ UNCHANGED <<cls, lastFit, fitpc, fitD, rd>>

\* the arrays the caller passes to transform: new data, or the distribution
\* the scaler was fitted on
Inputs == Data \cup {lastFit[i] : i \in DOMAIN lastFit}

Next ==
    \/ \E D \in Distributions : Fit(D)
    \/ \E X \in Inputs : Transform(X)
    \/ \E X \in Data : InverseTransform(X)
    \/ \E X \in Data : RoundTrip(X)

Spec == Init /\ [][Next]_vars

(* Threads: one runs the first fit of the instance assignment by            *)
(* assignment, the readers call transform / inverse_transform step by step *)

\* a fit that raises has assigned nothing: it is no step
FitCall(D) ==
    /\ fitpc = 0
    /\ fit_raises(cls, D) = "none"
    /\ fitpc' = 1
    /\ fitD' = <<D>>
    /\ lastFit' = IF NStmts(cls) = 0 THEN <<D>> ELSE lastFit
    /\ UNCHANGED <<cls, self, last, rd>>

FitStep ==
    /\ fitpc \in 1..NStmts(cls)
    /\ self' = fit_stmt(cls, self, fitD[1], fitpc)
    /\ fitpc' = fitpc + 1
    /\ lastFit' = IF fitpc = NStmts(cls) THEN fitD ELSE lastFit
    /\ UNCHANGED <<cls, last, fitD, rd>>

ReaderCall(r, op, X) ==
    /\ rd[r].pc \in {"idle", "done"}
    /\ rd' = [rd EXCEPT ![r] = enter(cls, self, op, X)]
    /\ UNCHANGED <<cls, self, lastFit, last, fitpc, fitD>>

ReaderStep(r) ==
    /\ rd[r].pc \notin {"idle", "done"}
    /\ rd' = [rd EXCEPT ![r] = method_step(cls, self, rd[r])]
    /\ self' = method_writes(cls, self, rd[r])
    /\ UNCHANGED <<cls, lastFit, last, fitpc, fitD>>

NextConc ==
    \/ \E D \in DistributionsConc : FitCall(D)
    \/ FitStep
    \/ \E r \in Readers, op \in Ops, X \in DataConc : ReaderCall(r, op, X)
    \/ \E r \in Readers : ReaderStep(r)

SpecConc == Init /\ [][NextConc]_vars

-----------------------------------------------------------------------------
(* Properties *)

\* the fields a fresh instance of class c holds after fit(D)
Stats(c, D) == fit(c, New(c), D).self

\* the distribution of the latest completed fit
D0 == lastFit[1]

\* the entries of column j of D that are not NaN
Vals(D, j) == {D[i][j] : i \in 1..Len(D)} \ {NaN}
ColMin(D, j) == CHOOSE x \in Vals(D, j) : \A y \in Vals(D, j) : FLeq(x, y)
ColMax(D, j) == CHOOSE x \in Vals(D, j) : \A y \in Vals(D, j) : FLeq(y, x)
\* column j holds a value, and only one
ConstCol(D, j) == Cardinality(Vals(D, j)) = 1

IsNaNRow(row) == \A j \in Cols : IsNaN(row[j])
NotNaNRow(row) == ~IsNaNRow(row)
\* D without the rows whose entries are all NaN
DropNaNRows(D) == SelectSeq(D, NotNaNRow)

Half == <<<<Rat(1, 2), Rat(1, 2)>>>>
Scenario == <<RowA, RowB, RowC>>

\* C1: on a Normalizer, Standardizer or RobustStandardizer on which no fit
\* has completed, transform and inverse_transform raise the AssertionError
\* with the "call .fit(distribution) first" message and return no value.
C1_UnfittedRaisesAssertion ==
    (cls \in Stateful /\ lastFit = <<>> /\ last.op \in Ops)
        => /\ last.exc = "AssertionError"
           /\ last.msg = FitFirstMsg
           /\ last.ret = <<>>

C1_Witness ==
    /\ cls = "RobustStandardizer"
    /\ lastFit = <<>>
    /\ last.op = "inverse_transform"
    /\ last.exc = "AssertionError"

\* what one call may do to the state Unfitted / Fitted of a stateful scaler
LifecycleStep ==
    cls \in Stateful =>
        /\ Fitted => Fitted'
        /\ (~Fitted /\ Fitted') => last'.op = "fit"
        /\ last'.op # "fit" => (Fitted' <=> Fitted)

\* C2: a stateful scaler starts Unfitted (some field None); once every field
\* is assigned it stays so under every call; only a fit call takes it from
\* Unfitted to Fitted; transform, inverse_transform and their composition
\* never change whether it is Fitted.
C2_TwoStateMachine ==
    /\ (cls \in Stateful => ~Fitted)
    /\ [][LifecycleStep]_vars

\* a fit that raises on an instance that is already fitted
C2_Witness ==
    /\ cls = "Normalizer"
    /\ Fitted
    /\ last.op = "fit"
    /\ last.pre
    /\ last.exc = "ValueError"

\* C3 as stated: once fitted, the stored parameters never change, whatever
\* is called next (a later fit included).
C3_Original == [][(cls \in Stateful /\ Fitted) => self' = self]_vars

\* C3 as amended: the stored parameters are always the statistics of the
\* distribution of the latest completed fit: transform, inverse_transform
\* and a fit that raises leave them as they are, a later fit(D') that
\* returns replaces them by the statistics of D'.
C3_StatsOfLatestFit ==
    (cls \in Stateful /\ lastFit # <<>>) => self = Stats(cls, D0)

C3_Witness ==
    /\ cls = "Standardizer"
    /\ lastFit # <<>>
    /\ last.op = "inverse_transform"
    /\ last.exc = "none"
    /\ self = Stats(cls, D0)

\* C4: no step of a transform or inverse_transform call changes a field of
\* the instance, whether the call returns or raises; and a call that began
\* on a fitted instance ends, under every interleaving with the other
\* reader, as the same call run alone ends.
C4_ReadersLeaveSelf ==
    /\ [](\A r \in Readers :
            (rd[r].pc = "done" /\ rd[r].pre) =>
                rd[r] = run(cls, self, enter(cls, self, rd[r].op, rd[r].arg)).call)
    /\ [][rd' # rd => self' = self]_vars

\* one reader has returned while the other is inside its return expression
C4_Witness ==
    /\ cls = "Normalizer"
    /\ rd["t1"].pc = "done" /\ rd["t1"].pre /\ rd["t1"].op = "transform"
    /\ rd["t1"].ret = Half
    /\ rd["t2"].pc = "read" /\ rd["t2"].k = 2 /\ rd["t2"].op = "inverse_transform"

\* C5 as stated: for every scaler and every distribution it was fitted on,
\* inverse_transform(transform(X)) returns X (a NaN entry of X comes back
\* as NaN).
C5_Original ==
    (last.op = "roundtrip" /\ (cls = "IdentityScaler" \/ lastFit # <<>>))
        => (last.exc = "none" /\ last.ret = last.arg)

\* C5 as amended: the same, for the distributions in which every column
\* holds at least one entry that is not NaN (IdentityScaler: for every
\* distribution, fitted or not).
C5_RoundTrip ==
    (/\ last.op = "roundtrip"
     /\ \/ cls = "IdentityScaler"
        \/ lastFit # <<>> /\ \A j \in Cols : Vals(D0, j) # {})
        => (last.exc = "none" /\ last.ret = last.arg)

\* a round trip through the guarded divisor of a constant column
C5_Witness ==
    /\ cls = "Standardizer"
    /\ lastFit = <<<<RowC, RowNaN, RowC>>>>
    /\ last.op = "roundtrip"
    /\ last.arg = Half
    /\ last.ret = Half

\* the entries of transform(D) at the positions where D is not NaN lie in
\* [0, 1], and the column minimum maps to 0
RangeLow(D, ret) ==
    \A i \in 1..Len(D), j \in Cols :
        ~IsNaN(D[i][j]) =>
            /\ FLeq(R(0), ret[i][j]) /\ FLeq(ret[i][j], R(1))
            /\ D[i][j] = ColMin(D, j) => ret[i][j] = R(0)

\* C6 as stated: Normalizer().fit(D).transform(D) lies in [0, 1] where D is
\* not NaN, the column minimum maps to 0 and the column maximum to 1.
C6_Original ==
    (cls = "Normalizer" /\ lastFit # <<>> /\ last.op = "transform" /\ last.arg = D0)
        => /\ last.exc = "none"
           /\ RangeLow(D0, last.ret)
           /\ \A i \in 1..Len(D0), j \in Cols :
                (~IsNaN(D0[i][j]) /\ D0[i][j] = ColMax(D0, j)) => last.ret[i][j] = R(1)

\* C6 as amended: the column maximum maps to 1 in the columns whose maximum
\* exceeds their minimum; in a column with a single value every entry maps
\* to 0.
C6_Range ==
    (cls = "Normalizer" /\ lastFit # <<>> /\ last.op = "transform" /\ last.arg = D0)
        => /\ last.exc = "none"
           /\ RangeLow(D0, last.ret)
           /\ \A i \in 1..Len(D0), j \in Cols :
                (~IsNaN(D0[i][j]) /\ D0[i][j] = ColMax(D0, j)) =>
                    last.ret[i][j] = IF ConstCol(D0, j) THEN R(0) ELSE R(1)

C6_Witness ==
    /\ cls = "Normalizer"
    /\ lastFit = <<<<RowC, RowNaN, RowA>>>>
    /\ last.op = "transform"
    /\ last.arg = D0
    /\ last.ret = <<<<R(1), R(1)>>, RowNaN, <<R(0), R(0)>>>>

\* C7: a fit that raises was not given a distribution with a constant
\* column; after fit on a distribution with a constant column, the divisor
\* stored for that column is finite and not zero, and transform of data
\* that is finite in that column raises nothing and returns finite values
\* in it.
C7_ZeroGuard ==
    \A j \in Cols :
        /\ (last.op = "fit" /\ last.exc # "none") => ~ConstCol(last.arg, j)
        /\ (cls \in Stateful /\ lastFit # <<>> /\ ConstCol(D0, j)) =>
              /\ IsFinite(self[Divisor(cls)][j]) /\ ~IsZero(self[Divisor(cls)][j])
              /\ (/\ last.op = "transform"
                  /\ \A i \in 1..Len(last.arg) : IsFinite(last.arg[i][j]))
                    => /\ last.exc = "none"
                       /\ \A i \in 1..Len(last.arg) : IsFinite(last.ret[i][j])

C7_Witness ==
    /\ cls = "Standardizer"
    /\ lastFit = <<<<RowB, RowB, RowB>>>>
    /\ self.std = <<EPSILON, EPSILON>>
    /\ last.op = "transform"
    /\ last.arg = <<RowB>>
    /\ last.ret = <<<<R(0), R(0)>>>>

C10_NoPartialParameters ==
    \A r \in Readers :
        /\ rd[r].pc = "read" => AllSet(self)
        /\ (rd[r].pc = "done" /\ ~AllSet(self)) => rd[r].exc = "AssertionError"
        /\ rd[r].pc = "done" => rd[r].exc \in {"none", "AssertionError"}
        /\ (rd[r].pc = "done" /\ rd[r].exc = "none" /\ cls \in Stateful) =>
              /\ fitpc = NStmts(cls) + 1
              /\ rd[r].ret = run(cls, Stats(cls, fitD[1]), enter(cls, self, rd[r].op, rd[r].arg)).call.ret

\* a call that passed the first conjunct of the assert and raised at a later
\* one, the fit still between two of its assignments
C10_Witness ==
    \E r \in Readers :
        /\ rd[r].pc = "done"
        /\ rd[r].exc = "AssertionError"
        /\ rd[r].k >= 2
        /\ fitpc \in 2..NStmts(cls)

=============================================================================
